---- MODULE Spec2Model ----
(***************************************************************************)
(* State-machine model of src/cache_mem.cpp: a set-associative cache       *)
(* simulator (class CacheSimulator) with LRU replacement, and the main()   *)
(* driver that replays a trace of addresses and prints the statistics.     *)
(*                                                                         *)
(* Addresses are uint64_t in the source.  Every address the model feeds    *)
(* to the simulator is below 2^31, so no shift or mask wraps and plain     *)
(* integer arithmetic computes exactly what the 64-bit code computes.      *)
(***************************************************************************)
EXTENDS Integers, Sequences, FiniteSets, TLC

VARIABLES config,  \* the values of the configuration section, lines 12-17
          sim,     \* the CacheSimulator object: sets, accesses, hits, misses
          last,    \* the most recent call on sim and what it was observed to do
          out,     \* what the most recent call wrote to cout
          shadow,  \* a second CacheSimulator object, driven side by side
          shadowLast, \* the most recent call on shadow and what it did
          trace,   \* main(): the trace vector
          pos,     \* main(): number of trace elements already consumed
          pc       \* main(): position in main, or "api" for a free client

vars == <<config, sim, last, out, shadow, shadowLast, trace, pos, pc>>

---------------------------------------------------------------------------
(* Configuration, lines 14-17.  The constants are fixed when the program   *)
(* is built; config holds them, and never changes during a run.  Every     *)
(* specification but SpecConfig runs the configuration of the source.      *)
ShippedConfig == [CACHE_SIZE |-> 32 * 1024, BLOCK_SIZE |-> 64, WAYS |-> 4]

CACHE_SIZE == config.CACHE_SIZE
BLOCK_SIZE == config.BLOCK_SIZE
WAYS == config.WAYS
NUM_SETS == CACHE_SIZE \div (BLOCK_SIZE * WAYS)

(* constexpr int get_log2(int n), lines 24-31 *)
RECURSIVE get_log2(_)
get_log2(n) == IF n > 1 THEN 1 + get_log2(n \div 2) ELSE 0

OFFSET_BITS == get_log2(BLOCK_SIZE)
INDEX_BITS == get_log2(NUM_SETS)

(* C++ operators on unsigned integers *)
ShiftLeft(x, n) == x * (2 ^ n)
ShiftRight(x, n) == x \div (2 ^ n)

RECURSIVE BitAnd(_, _)
BitAnd(x, y) ==
    IF x = 0 \/ y = 0 THEN 0
    ELSE (x % 2) * (y % 2) + 2 * BitAnd(x \div 2, y \div 2)

RECURSIVE BitOr(_, _)
BitOr(x, y) ==
    IF x = 0 THEN y
    ELSE IF y = 0 THEN x
    ELSE (IF x % 2 = 1 \/ y % 2 = 1 THEN 1 ELSE 0)
            + 2 * BitOr(x \div 2, y \div 2)

(* A line that keeps the default of its valid member *)
CacheLine_default_valid(v, t) == [valid |-> FALSE, tag |-> t]

(* struct CacheLine, lines 37-40; the miss path builds CacheLine{true, tag} *)
CacheLine(v, t) == [valid |-> v, tag |-> t]

---------------------------------------------------------------------------
(* Bounds of the model *)
MaxTag == 4         \* tags 0..MaxTag: one more tag than a set has ways
MaxAccesses == 6    \* accessMemory calls of a free client
MaxTrace == 7       \* length of the generated one-set traces main() replays
MaxMixed == 4       \* length of the generated two-set traces main() replays
MaxFair == 3        \* length of the generated traces of the fair runs of main()

MakeAddress(t, i, o) ==
    ShiftLeft(t, OFFSET_BITS + INDEX_BITS) + ShiftLeft(i, OFFSET_BITS) + o

(* The addresses a client passes: the blocks 0x1000, 0x3000, 0x5000, ...   *)
(* of set 64 (one per tag), a second byte of the first of them (0x1004),   *)
(* and two bytes of a block of set 0 (0x2000, 0x2004).                     *)
Addresses ==
    {MakeAddress(t, 64, 0) : t \in 0..MaxTag}
        \cup {MakeAddress(0, 64, 4), MakeAddress(1, 0, 0), MakeAddress(1, 0, 4)}

(* main(), lines 114-119: the trace of the source *)
ReferenceTrace ==
    <<4096, 4100, 4104,                  \* 0x1000, 0x1004, 0x1008
      8192, 8196,                        \* 0x2000, 0x2004
      4096,                              \* 0x1000
      12288, 16384, 20480, 24576, 28672>> \* 0x3000 ... 0x7000

(* The addresses of the generated traces: one block per tag 0..WAYS of     *)
(* set 64, enough to overflow the set, and one byte of a block of set 0.   *)
SetAddresses == {MakeAddress(t, 64, 0) : t \in 0..WAYS}

TraceAddresses == SetAddresses \cup {MakeAddress(1, 0, 4)}

(* The traces of n addresses of set 64, one per pattern of repetition: the *)
(* cache compares tags for equality only, so the first block of a trace    *)
(* has tag 0 and every block not seen before has the next unused tag.      *)
RECURSIVE OneSetTraces(_)
OneSetTraces(n) ==
    IF n = 0
    THEN {<<>>}
    ELSE UNION {{Append(t, a) :
                    a \in {b \in SetAddresses :
                             b \div (BLOCK_SIZE * NUM_SETS)
                               <= Cardinality({t[k] : k \in 1..Len(t)})}} :
                t \in OneSetTraces(n - 1)}

(* The traces main() is run on: the trace of the source, the traces of at  *)
(* most MaxTrace addresses of set 64 (long enough to fill the set, evict   *)
(* from it and come back to the evicted block), and every trace of at most *)
(* MaxMixed addresses of the two sets.                                     *)
TraceInputs ==
    {ReferenceTrace}
        \cup UNION {OneSetTraces(n) : n \in 0..MaxTrace}
        \cup UNION {[1..n -> TraceAddresses] : n \in 0..MaxMixed}

---------------------------------------------------------------------------
(* A mask one bit too short *)
index_mask_short == ShiftLeft(1, INDEX_BITS - 1) - 1

(* accessMemory, lines 63-66: the address decoder *)
index_mask == ShiftLeft(1, INDEX_BITS) - 1

(* An index taken from the low bits, without dropping the offset bits *)
Index_unshifted(address) == BitAnd(address, index_mask)

Index(address) == BitAnd(ShiftRight(address, OFFSET_BITS), index_mask)

(* A tag that drops the offset bits only *)
Tag_with_index(address) == ShiftRight(address, OFFSET_BITS)

(* A tag that keeps the whole address *)
Tag_unshifted(address) == address

Tag(address) == ShiftRight(address, OFFSET_BITS + INDEX_BITS)

(* A lookup that compares only the line at the front of the set *)
find_if_front_only(set, tag) ==
    IF Len(set) > 0 /\ set[1].valid /\ set[1].tag = tag THEN 1 ELSE 0

(* std::find_if over the set, lines 71-74: the position (1 = front) of the  *)
(* first valid line with the tag, 0 for current_set.end()                   *)
find_if(set, tag) ==
    LET found == {k \in 1..Len(set) : set[k].valid /\ set[k].tag = tag}
    IN IF found = {} THEN 0
       ELSE CHOOSE k \in found : \A j \in found : k <= j

(* A hit that swaps the found line with the front line *)
splice_swap(set, it) == [set EXCEPT ![1] = set[it], ![it] = set[1]]

(* std::list operations used by accessMemory *)
splice(set, it) ==
    <<set[it]>> \o SubSeq(set, 1, it - 1) \o SubSeq(set, it + 1, Len(set))

(* Insertion at the least-recently-used end *)
emplace_back(set, line) == set \o <<line>>

emplace_front(set, line) == <<line>> \o set

(* Removal at the most-recently-used end *)
pop_front(set) == SubSeq(set, 2, Len(set))

pop_back(set) == SubSeq(set, 1, Len(set) - 1)

(* A hit path that leaves the recency order alone (first in, first out) *)
Hit_no_reorder(c, index, it) == [c EXCEPT !.hits = @ + 1]

(* A hit path that counts the access as a miss as well *)
Hit_counts_both(c, index, it) ==
    [c EXCEPT !.hits = @ + 1,
              !.misses = @ + 1,
              !.sets[index] = splice(@, it)]

(* Lines 76-80: the hit path *)
Hit(c, index, it) ==
    [c EXCEPT !.hits = @ + 1,
              !.sets[index] = splice(@, it)]

(* Eviction that tolerates one line too many *)
Evict_off_by_one(set) == IF Len(set) > WAYS + 1 THEN pop_back(set) ELSE set

(* Eviction that fires as soon as the set reaches WAYS lines *)
Evict_at_capacity(set) == IF Len(set) >= WAYS THEN pop_back(set) ELSE set

(* Lines 87-90: eviction enforces the set size *)
Evict(set) == IF Len(set) > WAYS THEN pop_back(set) ELSE set

(* A miss path that forgets misses++ *)
Miss_uncounted(c, index, tag) ==
    [c EXCEPT !.sets[index] = Evict(emplace_front(@, CacheLine(TRUE, tag)))]

(* A miss path that never evicts *)
Miss_no_evict(c, index, tag) ==
    [c EXCEPT !.misses = @ + 1,
              !.sets[index] = emplace_front(@, CacheLine(TRUE, tag))]

(* A miss path that selects the set by the tag instead of the index *)
Miss_wrong_set(c, index, tag) ==
    [c EXCEPT !.misses = @ + 1,
              !.sets[BitAnd(tag, index_mask)]
                  = Evict(emplace_front(@, CacheLine(TRUE, tag)))]

(* Lines 81-91: the miss path *)
Miss(c, index, tag) ==
    [c EXCEPT !.misses = @ + 1,
              !.sets[index] = Evict(emplace_front(@, CacheLine(TRUE, tag)))]

(* void accessMemory(Address address), lines 58-92 *)
accessMemory(c, address) ==
    LET counted == [c EXCEPT !.accesses = @ + 1]
        index == Index(address)
        tag == Tag(address)
        it == find_if(counted.sets[index], tag)
    IN IF it # 0 THEN Hit(counted, index, it)
       ELSE Miss(counted, index, tag)

(* CacheSimulator(), lines 49-56: NUM_SETS empty sets, counters 0 *)
CacheSimulator ==
    [sets |-> [i \in 0..(NUM_SETS - 1) |-> <<>>],
     accesses |-> 0, hits |-> 0, misses |-> 0]

---------------------------------------------------------------------------
(* What a call was observed to do, read off the object before and after *)
TagsOf(set) == {set[k].tag : k \in 1..Len(set)}

Observed(before, after, address) ==
    [op |-> "accessMemory",
     address |-> address,
     hit |-> after.hits > before.hits,
     evicted |-> TagsOf(before.sets[Index(address)])
                   \ TagsOf(after.sets[Index(address)])]

NoCall == [op |-> "none", address |-> 0, hit |-> FALSE, evicted |-> {}]

ReportCall == [op |-> "printStats", address |-> 0, hit |-> FALSE, evicted |-> {}]

---------------------------------------------------------------------------
(* printStats, line 103 and lines 105-106: the hit rate in percent, as     *)
(* printed with fixed << setprecision(2), i.e. in hundredths of a percent  *)
(* rounded to nearest.  A tie at the third decimal needs accesses to be a  *)
(* multiple of 32, beyond the counters the model reaches.                  *)
Percent(h, a) == (2 * 10000 * h + a) \div (2 * a)

(* The division without its guard: 0.0 / 0 is a NaN, written -1 here *)
HitRate_unguarded(c) ==
    [divided |-> TRUE, divisor |-> c.accesses,
     value |-> IF c.accesses = 0 THEN -1 ELSE Percent(c.hits, c.accesses)]

(* Line 103: the guarded division.  divided records whether the quotient   *)
(* static_cast<double>(hits) / accesses was evaluated, and its divisor.    *)
HitRate(c) ==
    IF c.accesses > 0
    THEN [divided |-> TRUE, divisor |-> c.accesses,
          value |-> Percent(c.hits, c.accesses)]
    ELSE [divided |-> FALSE, divisor |-> 0, value |-> 0]

(* void printStats() const, lines 94-107: what is written to cout *)
Report(c) ==
    [printed |-> TRUE,
     size_kb |-> CACHE_SIZE \div 1024,
     ways |-> WAYS,
     accesses |-> c.accesses,
     hits |-> c.hits,
     misses |-> c.misses,
     hitRate |-> HitRate(c)]

NoOutput ==
    [printed |-> FALSE, size_kb |-> 0, ways |-> 0,
     accesses |-> 0, hits |-> 0, misses |-> 0,
     hitRate |-> [divided |-> FALSE, divisor |-> 0, value |-> 0]]

---------------------------------------------------------------------------
(* A client of the class: any call, in any order, on one simulator *)
Init ==
    /\ config = ShippedConfig
    /\ sim = CacheSimulator
    /\ last = NoCall
    /\ out = NoOutput
    /\ shadow = CacheSimulator
    /\ shadowLast = NoCall
    /\ trace = <<>>
    /\ pos = 0
    /\ pc = "api"

(* sim.accessMemory(address) *)
Access(address) ==
    /\ pc = "api"
    /\ sim.accesses < MaxAccesses
    /\ sim' = accessMemory(sim, address)
    /\ last' = Observed(sim, sim', address)
    /\ out' = NoOutput
    /\ UNCHANGED <<config, shadow, shadowLast, trace, pos, pc>>

(* A report that clears the counters once it has printed them *)
PrintStats_and_reset ==
    /\ pc = "api"
    /\ out' = Report(sim)
    /\ last' = ReportCall
    /\ sim' = [sim EXCEPT !.accesses = 0, !.hits = 0, !.misses = 0]
    /\ UNCHANGED <<config, shadow, shadowLast, trace, pos, pc>>

(* sim.printStats() *)
PrintStats ==
    /\ pc = "api"
    /\ out' = Report(sim)
    /\ last' = ReportCall
    /\ UNCHANGED <<config, sim, shadow, shadowLast, trace, pos, pc>>

Next ==
    \/ \E address \in Addresses : Access(address)
    \/ PrintStats

Spec == Init /\ [][Next]_vars

---------------------------------------------------------------------------
(* Two simulators side by side: sim is given a, shadow is given an address *)
(* b of the same block (a and b differ in their low OFFSET_BITS bits only) *)
SameBlock(a, b) == ShiftRight(a, OFFSET_BITS) = ShiftRight(b, OFFSET_BITS)

AccessPair(a, b) ==
    /\ pc = "api"
    /\ sim.accesses < MaxAccesses
    /\ SameBlock(a, b)
    /\ sim' = accessMemory(sim, a)
    /\ last' = Observed(sim, sim', a)
    /\ shadow' = accessMemory(shadow, b)
    /\ shadowLast' = Observed(shadow, shadow', b)
    /\ out' = NoOutput
    /\ UNCHANGED <<config, trace, pos, pc>>

NextPair == \E a, b \in Addresses : AccessPair(a, b)

SpecPair == Init /\ [][NextPair]_vars

---------------------------------------------------------------------------
(* The other order of the miss path, which the source does not contain:    *)
(* if the set already holds WAYS lines remove the back line, then insert   *)
(* the new line at the front.                                              *)
Miss_evict_first(c, index, tag) ==
    [c EXCEPT !.misses = @ + 1,
              !.sets[index] =
                  emplace_front(IF Len(@) >= WAYS THEN pop_back(@) ELSE @,
                                CacheLine(TRUE, tag))]

accessMemory_evict_first(c, address) ==
    LET counted == [c EXCEPT !.accesses = @ + 1]
        index == Index(address)
        tag == Tag(address)
        it == find_if(counted.sets[index], tag)
    IN IF it # 0 THEN Hit(counted, index, it)
       ELSE Miss_evict_first(counted, index, tag)

(* sim runs the source's accessMemory, shadow the other order, on the same *)
(* address                                                                 *)
AccessBoth(a) ==
    /\ pc = "api"
    /\ sim.accesses < MaxAccesses
    /\ sim' = accessMemory(sim, a)
    /\ last' = Observed(sim, sim', a)
    /\ shadow' = accessMemory_evict_first(shadow, a)
    /\ shadowLast' = Observed(shadow, shadow', a)
    /\ out' = NoOutput
    /\ UNCHANGED <<config, trace, pos, pc>>

NextAlt == \E a \in Addresses : AccessBoth(a)

SpecAlt == Init /\ [][NextAlt]_vars

---------------------------------------------------------------------------
(* int main(), lines 110-129, on a trace of TraceInputs *)
InitMain ==
    /\ config = ShippedConfig
    /\ sim = CacheSimulator
    /\ last = NoCall
    /\ out = NoOutput
    /\ shadow = CacheSimulator
    /\ shadowLast = NoCall
    /\ trace \in TraceInputs
    /\ pos = 0
    /\ pc = "loop"

(* A loop that walks the trace from its end *)
MainAccess_from_back ==
    /\ pc = "loop"
    /\ pos < Len(trace)
    /\ sim' = accessMemory(sim, trace[Len(trace) - pos])
    /\ last' = Observed(sim, sim', trace[Len(trace) - pos])
    /\ out' = NoOutput
    /\ pos' = pos + 1
    /\ UNCHANGED <<config, shadow, shadowLast, trace, pc>>

(* Lines 122-124: one iteration of the range-based for loop *)
MainAccess ==
    /\ pc = "loop"
    /\ pos < Len(trace)
    /\ sim' = accessMemory(sim, trace[pos + 1])
    /\ last' = Observed(sim, sim', trace[pos + 1])
    /\ out' = NoOutput
    /\ pos' = pos + 1
    /\ UNCHANGED <<config, shadow, shadowLast, trace, pc>>

(* Lines 126-128: the loop is over, sim.printStats(), return 0 *)
MainPrint ==
    /\ pc = "loop"
    /\ pos = Len(trace)
    /\ out' = Report(sim)
    /\ last' = ReportCall
    /\ pc' = "done"
    /\ UNCHANGED <<config, sim, shadow, shadowLast, trace, pos>>

NextMain == MainAccess \/ MainPrint

SpecMain == InitMain /\ [][NextMain]_vars

(* main() is a sequential program that is run to its end: whenever it can  *)
(* take a step, it eventually takes one.  The runs are those on the trace  *)
(* of the source and on the two-set traces of at most MaxFair addresses.   *)
FairTraceInputs ==
    {ReferenceTrace} \cup UNION {[1..n -> TraceAddresses] : n \in 0..MaxFair}

InitMainFair ==
    /\ config = ShippedConfig
    /\ sim = CacheSimulator
    /\ last = NoCall
    /\ out = NoOutput
    /\ shadow = CacheSimulator
    /\ shadowLast = NoCall
    /\ trace \in FairTraceInputs
    /\ pos = 0
    /\ pc = "loop"

SpecMainFair == InitMainFair /\ [][NextMain]_vars /\ WF_vars(NextMain)

---------------------------------------------------------------------------
(* The class built with an edited configuration section: the source's own  *)
(* values, or 24KB, 48-byte blocks or 3 ways in their place.  Every one of *)
(* them has positive sizes and at least one set; the constructor, lines    *)
(* 54-56, resizes the vector and checks nothing.                           *)
Configs ==
    {[CACHE_SIZE |-> cs, BLOCK_SIZE |-> bs, WAYS |-> w] :
        cs \in {32 * 1024, 24 * 1024}, bs \in {64, 48}, w \in {4, 3}}

InitConfig ==
    /\ config \in Configs
    /\ sim = CacheSimulator
    /\ last = NoCall
    /\ out = NoOutput
    /\ shadow = CacheSimulator
    /\ shadowLast = NoCall
    /\ trace = <<>>
    /\ pos = 0
    /\ pc = "api"

SpecConfig == InitConfig /\ [][Next]_vars

---------------------------------------------------------------------------
(* Vocabulary of the properties *)
SetIndices == 0..(NUM_SETS - 1)

TagSeq(set) == [k \in 1..Len(set) |-> set[k].tag]

(* Number of lines held by the sets lo..hi, summed by halving the range *)
RECURSIVE LinesIn(_, _, _)
LinesIn(c, lo, hi) ==
    IF lo > hi THEN 0
    ELSE IF lo = hi THEN Len(c.sets[lo])
    ELSE LET mid == (lo + hi) \div 2
         IN LinesIn(c, lo, mid) + LinesIn(c, mid + 1, hi)

TotalLines(c) == LinesIn(c, 0, NUM_SETS - 1)

DistinctTags(set) ==
    \A j, k \in 1..Len(set) : j # k => set[j].tag # set[k].tag

(* The step is the call sim.accessMemory(a) *)
AccessStep(a) ==
    /\ sim'.accesses = sim.accesses + 1
    /\ last'.op = "accessMemory"
    /\ last'.address = a

---------------------------------------------------------------------------
(* C1: after every accessMemory call, and in the initial state, accesses   *)
(* equals hits + misses.                                                   *)
C1_CountersAddUp == sim.accesses = sim.hits + sim.misses

C1_Witness == sim.hits >= 1 /\ sim.misses >= 2

(* C2: between calls every set holds at most WAYS lines, so the cache      *)
(* holds at most NUM_SETS * WAYS lines in total.                           *)
C2_SetsBounded ==
    /\ \A i \in SetIndices : Len(sim.sets[i]) <= WAYS
    /\ TotalLines(sim) <= NUM_SETS * WAYS

C2_Witness ==
    /\ last.op = "accessMemory"
    /\ last.evicted # {}
    /\ Len(sim.sets[Index(last.address)]) = WAYS

(* C3: no two lines of the same set carry the same tag. *)
C3_NoDuplicateTags == \A i \in SetIndices : DistinctTags(sim.sets[i])

C3_Witness ==
    /\ last.op = "accessMemory"
    /\ last.hit
    /\ Len(sim.sets[Index(last.address)]) = WAYS
    /\ sim.sets[Index(last.address)][1].tag = Tag(last.address)
    /\ sim.hits >= 2

(* C4: a miss with a new tag on a set holding WAYS distinct tags removes   *)
(* exactly the LRU line and puts the new line in front of the others; the  *)
(* next access, if it is to the evicted tag, misses, and if it is to one   *)
(* of the surviving tags, hits.                                            *)
C4_EvictsLRU ==
    [][\A a \in Addresses :
        LET i == Index(a)
            set == sim.sets[i]
        IN AccessStep(a) =>
            /\ (Len(set) = WAYS /\ DistinctTags(set) /\ Tag(a) \notin TagsOf(set)
                  /\ ~last'.hit)
                => /\ sim'.sets[i]
                        = <<CacheLine(TRUE, Tag(a))>> \o SubSeq(set, 1, WAYS - 1)
                   /\ last'.evicted = {set[WAYS].tag}
            /\ (last.op = "accessMemory" /\ last.evicted # {}
                  /\ Index(last.address) = i)
                => /\ Tag(a) \in last.evicted => ~last'.hit
                   /\ Tag(a) \in TagsOf(pop_front(set)) => last'.hit
      ]_vars

C4_Witness ==
    /\ TagSeq(sim.sets[64]) = <<0, 4, 3, 2>>
    /\ last.op = "accessMemory"
    /\ ~last.hit
    /\ last.evicted = {1}
    /\ sim.misses = 6

(* C5: the second of two consecutive accessMemory(a) calls is a hit, and   *)
(* any call is a miss exactly when the tag of a is absent from its set     *)
(* beforehand.                                                             *)
C5_TwiceInARow ==
    [][\A a \in Addresses :
        AccessStep(a) =>
            /\ ~last'.hit <=> Tag(a) \notin TagsOf(sim.sets[Index(a)])
            /\ (last.op = "accessMemory" /\ last.address = a) => last'.hit
      ]_vars

C5_Witness ==
    /\ last.op = "accessMemory"
    /\ last.address = MakeAddress(1, 64, 0)
    /\ last.hit
    /\ sim.accesses = 2
    /\ sim.misses = 1

(* C6: addresses that differ only in their offset bits decode to the same *)
(* (tag, index), and two traces whose corresponding addresses lie in the   *)
(* same block yield the same hit/miss classification at every position    *)
(* and the same sets and counters.                                         *)
C6_OffsetIndependent ==
    /\ \A a, b \in Addresses \cup {4096, 4100, 4104} :
          SameBlock(a, b) => Index(a) = Index(b) /\ Tag(a) = Tag(b)
    /\ shadow = sim
    /\ shadowLast.hit = last.hit
    /\ shadowLast.evicted = last.evicted

C6_Witness ==
    /\ last.op = "accessMemory"
    /\ shadowLast.address # last.address
    /\ last.hit
    /\ sim.hits >= 2
    /\ sim.misses >= 2

(* C7: printStats leaves the counters and every set unchanged, and called  *)
(* again with no access in between it reports the same values.             *)
C7_ReportReadOnly ==
    [][/\ last'.op = "printStats" => sim' = sim
       /\ (last.op = "printStats" /\ last'.op = "printStats") => out' = out
      ]_vars

C7_Witness ==
    /\ last.op = "printStats"
    /\ out.printed
    /\ out.accesses = 3
    /\ sim.accesses = 3
    /\ sim.hits = 1

(* C8: the report of a simulator with accesses = 0 shows hit rate 0 and    *)
(* does not divide; the division happens only with accesses > 0.           *)
C8_NoDivisionByZero ==
    out.printed =>
        /\ out.accesses = 0
            => out.hitRate.value = 0 /\ ~out.hitRate.divided
        /\ out.hitRate.divided => out.hitRate.divisor > 0

C8_Witness ==
    /\ out.printed
    /\ sim.accesses = 0
    /\ out.accesses = 0
    /\ out.hitRate.value = 0

(* C9: a geometry that is invalid (a size that is not positive, or a      *)
(* block size, a number of ways or a number of sets that is no power of    *)
(* two) is rejected at construction, so no access is ever performed on a   *)
(* simulator with an invalid geometry.                                     *)
IsPowerOfTwo(n) == n >= 1 /\ 2 ^ get_log2(n) = n

ValidGeometry ==
    /\ CACHE_SIZE > 0 /\ BLOCK_SIZE > 0 /\ WAYS > 0
    /\ IsPowerOfTwo(BLOCK_SIZE)
    /\ IsPowerOfTwo(WAYS)
    /\ IsPowerOfTwo(NUM_SETS)

C10_Expected == <<FALSE, TRUE, TRUE, FALSE, TRUE, TRUE>>

C10_ReferenceTrace ==
    trace = ReferenceTrace =>
        /\ (pc = "loop" /\ pos \in 1..6) => last.hit = C10_Expected[pos]
        /\ pc = "done" => sim.accesses = 11 /\ out.accesses = 11

C10_Witness ==
    /\ trace = ReferenceTrace
    /\ pc = "done"
    /\ out.printed
    /\ sim.accesses = 11

(* C11: with the geometry of the source (OFFSET_BITS = 6, INDEX_BITS = 7)  *)
(* the addresses 0x1000, 0x1004 and 0x1008 all decode to set index 0.      *)
(* The code decodes them to set index 64, with tag 0: C11_IndexZero states *)
(* the claim as made, C11_IndexSixtyFour the claim as amended.             *)
C11_IndexZero ==
    (trace = ReferenceTrace /\ pc = "loop" /\ pos \in 1..3)
        => Index(trace[pos]) = 0

C11_IndexSixtyFour ==
    /\ OFFSET_BITS = 6 /\ INDEX_BITS = 7
    /\ (trace = ReferenceTrace /\ pc = "loop" /\ pos \in 1..3)
        => /\ trace[pos] \in {4096, 4100, 4104}
           /\ Index(trace[pos]) = 64
           /\ Tag(trace[pos]) = 0
           /\ TagSeq(sim.sets[64]) = <<0>>
           /\ sim.sets[0] = <<>>

C11_Witness ==
    /\ trace = ReferenceTrace
    /\ pc = "loop"
    /\ pos = 3
    /\ last.address = 4104

(* C12: decoding splits an address without loss: the index is              *)
(* (a >> OFFSET_BITS) & (2^INDEX_BITS - 1) and lies in 0..NUM_SETS-1, the  *)
(* tag is a >> (OFFSET_BITS + INDEX_BITS), and tag, index and the low      *)
(* OFFSET_BITS bits of a, shifted back and or-ed together, give a.         *)
C12_Inputs ==
    Addresses \cup {ReferenceTrace[k] : k \in 1..Len(ReferenceTrace)}
        \cup {0, 1, 63, 64, 127, 8191, 8192, 8255, 65535, 1048575}

C12_Lossless(a) ==
    LET offset == a % (2 ^ OFFSET_BITS)
    IN /\ Index(a) = (a \div (2 ^ OFFSET_BITS)) % (2 ^ INDEX_BITS)
       /\ Index(a) \in 0..(NUM_SETS - 1)
       /\ Tag(a) = a \div (2 ^ (OFFSET_BITS + INDEX_BITS))
       /\ BitOr(BitOr(ShiftLeft(Tag(a), OFFSET_BITS + INDEX_BITS),
                      ShiftLeft(Index(a), OFFSET_BITS)),
                offset) = a

C12_LosslessSplit ==
    /\ \A a \in C12_Inputs : C12_Lossless(a)
    /\ last.op = "accessMemory"
        => /\ C12_Lossless(last.address)
           /\ Len(sim.sets[Index(last.address)]) >= 1
           /\ sim.sets[Index(last.address)][1].tag = Tag(last.address)

C12_Witness ==
    /\ last.op = "accessMemory"
    /\ last.address = MakeAddress(3, 64, 0)
    /\ Index(last.address) = 64
    /\ Tag(last.address) = 3
    /\ last.address % 64 = 0

(* C13: a hit on the line at rank k moves that line to rank 0, moves the   *)
(* lines of ranks 0..k-1 down by one in their order, leaves the lines      *)
(* above rank k in place, and neither inserts nor evicts a line.           *)
C13_HitMovesToFront ==
    [][\A a \in Addresses :
        LET i == Index(a)
            set == sim.sets[i]
            new == sim'.sets[i]
        IN (AccessStep(a) /\ last'.hit) =>
             /\ \E k \in 1..Len(set) : set[k].tag = Tag(a)
             /\ \A k \in 1..Len(set) :
                   set[k].tag = Tag(a) =>
                     /\ new[1] = set[k]
                     /\ \A j \in 1..(k - 1) : new[j + 1] = set[j]
                     /\ \A j \in (k + 1)..Len(set) : new[j] = set[j]
             /\ Len(new) = Len(set)
             /\ TagsOf(new) = TagsOf(set)
             /\ last'.evicted = {}
      ]_vars

C13_Witness ==
    /\ TagSeq(sim.sets[64]) = <<1, 3, 2, 0>>
    /\ last.op = "accessMemory"
    /\ last.hit
    /\ sim.accesses = 5
    /\ sim.hits = 1

(* C14: every accessMemory call adds 1 to accesses and 1 to exactly one of *)
(* hits and misses (to hits iff a line with the decoded tag is in the      *)
(* decoded set), and no counter ever decreases.                            *)
C14_OneCounterPerAccess ==
    [][/\ last'.op = "accessMemory" =>
            LET a == last'.address
                present == Tag(a) \in TagsOf(sim.sets[Index(a)])
            IN /\ sim'.accesses = sim.accesses + 1
               /\ present => /\ sim'.hits = sim.hits + 1
                              /\ sim'.misses = sim.misses
               /\ ~present => /\ sim'.misses = sim.misses + 1
                               /\ sim'.hits = sim.hits
       /\ sim'.accesses >= sim.accesses
       /\ sim'.hits >= sim.hits
       /\ sim'.misses >= sim.misses
      ]_vars

C14_Witness ==
    /\ last.op = "accessMemory"
    /\ sim.hits = 3
    /\ sim.misses = 3

(* C15: accessMemory(a) changes only the set selected by the index bits of *)
(* a; every other set keeps its lines and their order, on a hit and on a   *)
(* miss.                                                                   *)
C15_OtherSetsUntouched ==
    [][\A a \in Addresses :
        AccessStep(a) =>
            \A i \in SetIndices \ {Index(a)} : sim'.sets[i] = sim.sets[i]
      ]_vars

C15_Witness ==
    /\ last.op = "accessMemory"
    /\ Index(last.address) = 64
    /\ Len(sim.sets[0]) = 1
    /\ Len(sim.sets[64]) = WAYS
    /\ sim.hits >= 1

(* C16: a tag leaves a set only through an access that misses with another *)
(* tag of the same set while the set holds WAYS lines and the tag is at    *)
(* the LRU rank; no other step removes a tag.                              *)
C16_OnlyEvictionRemoves ==
    [][\A i \in SetIndices :
        \A t \in TagsOf(sim.sets[i]) \ TagsOf(sim'.sets[i]) :
            /\ last'.op = "accessMemory"
            /\ sim'.accesses = sim.accesses + 1
            /\ Index(last'.address) = i
            /\ ~last'.hit
            /\ Tag(last'.address) # t
            /\ Len(sim.sets[i]) = WAYS
            /\ sim.sets[i][WAYS].tag = t
      ]_vars

C16_Witness ==
    /\ TagSeq(sim.sets[64]) = <<4, 3, 2, 1>>
    /\ last.op = "accessMemory"
    /\ last.evicted = {0}
    /\ Len(sim.sets[0]) = 1

(* C17: inserting first and then evicting when the set exceeds WAYS lines  *)
(* gives, after every access of any trace, the same sets, recency order    *)
(* and counters as evicting first from a set of WAYS lines and then        *)
(* inserting.                                                              *)
C17_SameAsEvictFirst ==
    /\ shadow = sim
    /\ shadowLast = last

C17_Witness ==
    /\ last.op = "accessMemory"
    /\ last.evicted # {}
    /\ shadowLast.evicted = last.evicted
    /\ sim.accesses = 6
    /\ sim.hits = 1
    /\ Len(shadow.sets[64]) = WAYS

(* C18: processing a finite trace of n addresses terminates, the i-th      *)
(* access uses the i-th address of the trace, and the run ends with        *)
(* accesses = n.                                                           *)
C18_TraceInOrder ==
    /\ <>(pc = "done")
    /\ [](pos \in 0..Len(trace) /\ sim.accesses = pos)
    /\ []((pc = "loop" /\ pos >= 1)
            => last.op = "accessMemory" /\ last.address = trace[pos])
    /\ [](pc = "done" => pos = Len(trace) /\ sim.accesses = Len(trace))

C18_Witness ==
    /\ pc = "done"
    /\ Len(trace) = 3
    /\ trace[1] # trace[3]
    /\ sim.accesses = 3
    /\ out.accesses = 3

(* C19: the replacement is least-recently-used.  An access is a hit iff    *)
(* its block was accessed before and fewer than WAYS distinct other tags   *)
(* of the same index were accessed since the last time; and every set      *)
(* lists the min(WAYS, number of distinct tags seen for its index) most    *)
(* recently accessed tags of its index, most recent first.                 *)
RECURSIVE C19_History(_, _)
C19_History(i, n) ==
    IF n = 0
    THEN <<>>
    ELSE IF Index(trace[n]) = i
         THEN Append(C19_History(i, n - 1), Tag(trace[n]))
         ELSE C19_History(i, n - 1)

C19_Seen(h) == {h[k] : k \in 1..Len(h)}

C19_LastPos(h, t) ==
    CHOOSE k \in 1..Len(h) : h[k] = t /\ \A j \in (k + 1)..Len(h) : h[j] # t

C19_Min(x, y) == IF x <= y THEN x ELSE y

C19_SetIsMostRecent(s, h) ==
    /\ Len(s) = C19_Min(WAYS, Cardinality(C19_Seen(h)))
    /\ \A j \in 1..Len(s) : s[j] \in C19_Seen(h)
    /\ \A j, k \in 1..Len(s) :
          j < k => C19_LastPos(h, s[j]) > C19_LastPos(h, s[k])
    /\ \A t \in C19_Seen(h) :
          (\A j \in 1..Len(s) : s[j] # t)
              => \A j \in 1..Len(s) : C19_LastPos(h, t) < C19_LastPos(h, s[j])

C19_HitExpected(h, t) ==
    /\ t \in C19_Seen(h)
    /\ LET recent == C19_LastPos(h, t)
       IN Cardinality({h[k] : k \in (recent + 1)..Len(h)} \ {t}) < WAYS

C19_TrueLRU ==
    LET touched == {Index(trace[k]) : k \in 1..pos}
    IN /\ \A i \in touched :
             C19_SetIsMostRecent(TagSeq(sim.sets[i]), C19_History(i, pos))
       /\ \A i \in SetIndices \ touched : sim.sets[i] = <<>>
       /\ (pc = "loop" /\ pos >= 1)
             => (last.hit <=> C19_HitExpected(
                                 C19_History(Index(trace[pos]), pos - 1),
                                 Tag(trace[pos])))

C19_Witness ==
    /\ pc = "loop"
    /\ pos = 6
    /\ Tag(trace[6]) = Tag(trace[1])
    /\ Index(trace[6]) = Index(trace[1])
    /\ Tag(trace[6]) \notin {Tag(trace[k]) : k \in 2..5}
    /\ ~last.hit
    /\ sim.hits = 0

(* C20: every stored line is valid.  The sets start empty, a line is only  *)
(* created as {true, tag} on a miss, so in every set the number of valid   *)
(* lines is the length of the set and the valid test of the lookup never   *)
(* rejects a stored line: the lookup finds a tag iff the set holds it.     *)
C20_ValidLines(set) == {k \in 1..Len(set) : set[k].valid}

C20_AllLinesValid ==
    /\ \A i \in SetIndices :
          /\ \A k \in 1..Len(sim.sets[i]) : sim.sets[i][k].valid = TRUE
          /\ Cardinality(C20_ValidLines(sim.sets[i])) = Len(sim.sets[i])
    /\ \A a \in Addresses :
          (find_if(sim.sets[Index(a)], Tag(a)) # 0)
              <=> (Tag(a) \in TagsOf(sim.sets[Index(a)]))
    /\ (last.op = "accessMemory" /\ ~last.hit)
          => sim.sets[Index(last.address)][1]
                = [valid |-> TRUE, tag |-> Tag(last.address)]
    /\ sim.accesses = 0 => \A i \in SetIndices : sim.sets[i] = <<>>

C20_Witness ==
    /\ Len(sim.sets[64]) = WAYS
    /\ Len(sim.sets[0]) = 1
    /\ last.op = "accessMemory"
    /\ last.evicted # {}
    /\ \A k \in 1..WAYS : sim.sets[64][k].valid

====
